---- MODULE Spec2Model ----
(***************************************************************************)
(* The metadata endpoint of policyengine_api                                *)
(* (src/policyengine_api/endpoints/metadata.py).                            *)
(*                                                                         *)
(* metadata(country_id) validates the country identifier, then projects    *)
(* the variables, the parameter tree and the entities of the loaded rule   *)
(* system into plain mappings and wraps them in a result envelope.         *)
(*                                                                         *)
(* Representation of Python values:                                        *)
(*   - a dict is a function (a record when its keys are fixed strings);    *)
(*     the empty dict is the function with the empty domain;               *)
(*   - a str that may be None is a string, None being the string "None";   *)
(*   - a value of arbitrary runtime type (a variable's default, a          *)
(*     parameter's value) is a record [type |-> <type name>, val |-> <repr>*)
(*     ]; None of that kind is PyNone;                                     *)
(*   - a parameter name is the sequence of its characters, so that the     *)
(*     slice name[:3] is computed, not assumed.                            *)
(***************************************************************************)
EXTENDS Integers, Sequences, FiniteSets, TLC

VARIABLES
    COUNTRIES,  \* the country registry: country id -> loaded country
    registry0,  \* history: the registry as loaded, before any invocation
    pc,         \* per invocation slot: its position in metadata()
    frame,      \* per invocation slot: the locals of metadata()
    ret,        \* per invocation slot: the value metadata() returned
    calls,      \* history: the projectors the current invocation has called
    overlap     \* history: another invocation was in flight during this one

vars == <<COUNTRIES, registry0, pc, frame, ret, calls, overlap>>

----------------------------------------------------------------------------
(* Bounds of the model *)

NumRequests == 2

MaxVariables == 2

MaxParams == 3

MaxEntities == 2

MaxRoles == 2

----------------------------------------------------------------------------
(* Python values *)

None == "None"

PyNone == [type |-> "NoneType", val |-> "None"]

EmptyDict == [k \in {} |-> None]

DictGet(d, k) == IF k \in DOMAIN d THEN d[k] ELSE None

DictSet(d, k, v) == [x \in DOMAIN d \cup {k} |-> IF x = k THEN v ELSE d[x]]

\* value is not None
IsNotNone(value) == value.type # "NoneType"

\* isinstance(value, (int, float, bool))
IsIntFloatBool(value) == value.type \in {"int", "float", "bool"}

\* isinstance(node, cls) over the parameter classes of policyengine_core:
\* ParameterScaleBracket derives from ParameterNode, the others are unrelated.
IsInstance(kind, cls) ==
    \/ kind = cls
    \/ kind = "ParameterScaleBracket" /\ cls = "ParameterNode"

\* s[:n] of a string held as a sequence of characters
Slice(s, n) == SubSeq(s, 1, IF Len(s) < n THEN Len(s) ELSE n)

Range(s) == {s[i] : i \in 1..Len(s)}

\* a set as a sequence, in some fixed order
RECURSIVE SetToSeq(_)
SetToSeq(S) ==
    IF S = {} THEN <<>>
    ELSE LET x == CHOOSE y \in S : TRUE IN <<x>> \o SetToSeq(S \ {x})

----------------------------------------------------------------------------
(* Collaborators: the country registry, its validator and the JSON coercion *)

\* COUNTRIES.get(country_id): the loaded country, or None (PyNone)
CountriesGet(countries, country_id) ==
    IF country_id \in DOMAIN countries THEN countries[country_id] ELSE PyNone

\* what COUNTRIES.pop(country_id) would leave in the registry
CountriesAfterPop(countries, country_id) ==
    [k \in DOMAIN countries \ {country_id} |-> countries[k]]

\* what COUNTRIES.get(country_id) leaves in the registry: get only reads
CountriesAfterGet(countries, country_id) == countries

\* validate_country(country_id): None for a loaded country, else the
\* ready-made error envelope
validate_country(countries, country_id) ==
    IF country_id \in DOMAIN countries
    THEN PyNone
    ELSE [status |-> "error",
          message |-> "Country " \o country_id \o " not found."]

\* get_safe_json(value): infinities become strings, the rest is kept
get_safe_json(value) ==
    IF value.type = "float" /\ value.val = "inf"
    THEN [type |-> "str", val |-> "Infinity"]
    ELSE IF value.type = "float" /\ value.val = "-inf"
    THEN [type |-> "str", val |-> "-Infinity"]
    ELSE value

----------------------------------------------------------------------------
(* build_microsimulation_options *)

UkRegions ==
    << [name |-> "uk", label |-> "the UK"],
       [name |-> "ni", label |-> "Northern Ireland"] >>

UsRegions ==
    << [name |-> "us", label |-> "the US"],
       [name |-> "ak", label |-> "Alaska"],
       [name |-> "fl", label |-> "Florida"],
       [name |-> "md", label |-> "Maryland"],
       [name |-> "ma", label |-> "Massachusetts"],
       [name |-> "nv", label |-> "Nevada"],
       [name |-> "ny", label |-> "New York"],
       [name |-> "or", label |-> "Oregon"],
       [name |-> "pa", label |-> "Pennsylvania"],
       [name |-> "sd", label |-> "South Dakota"],
       [name |-> "tn", label |-> "Tennessee"],
       [name |-> "tx", label |-> "Texas"],
       [name |-> "wa", label |-> "Washington"] >>

TimePeriods == << [name |-> 2022, label |-> "2022"] >>

\* build_microsimulation_options with "uk" as the fallback of every id
OptionsUsOnly(country, country_id) ==
    IF country_id = "us"
    THEN DictSet(DictSet(EmptyDict, "region", UsRegions),
                 "time_period", TimePeriods)
    ELSE DictSet(DictSet(EmptyDict, "region", UkRegions),
                 "time_period", TimePeriods)

build_microsimulation_options(country, country_id) ==
    LET options == EmptyDict
    IN IF country_id = "uk"
       THEN DictSet(DictSet(options, "region", UkRegions),
                    "time_period", TimePeriods)
       ELSE IF country_id = "us"
       THEN DictSet(DictSet(options, "region", UsRegions),
                    "time_period", TimePeriods)
       ELSE options

----------------------------------------------------------------------------
(* build_variables *)

\* [dict(value=value.name, label=value.value) for value in possible_values]
PossibleValues(possible_values) ==
    [i \in 1..Len(possible_values) |->
        [value |-> possible_values[i].name,
         label |-> possible_values[i].value]]

\* the loop body of build_variables without its Enum branch
VariableRecordNoEnum(variable_name, variable) ==
    [documentation |-> variable.documentation,
     entity |-> variable.entity.key,
     valueType |-> variable.value_type,
     definitionPeriod |-> variable.definition_period,
     name |-> variable_name,
     label |-> variable.label,
     category |-> variable.category,
     unit |-> variable.unit,
     moduleName |-> variable.module_name,
     indexInModule |-> variable.index_in_module,
     isInputVariable |-> variable.is_input_variable,
     defaultValue |-> IF IsIntFloatBool(variable.default_value)
                      THEN variable.default_value
                      ELSE PyNone,
     adds |-> variable.adds,
     subtracts |-> variable.subtracts]

\* the record of one variable: the body of the loop of build_variables
VariableRecord(variable_name, variable) ==
    LET record ==
          [documentation |-> variable.documentation,
           entity |-> variable.entity.key,
           valueType |-> variable.value_type,
           definitionPeriod |-> variable.definition_period,
           name |-> variable_name,
           label |-> variable.label,
           category |-> variable.category,
           unit |-> variable.unit,
           moduleName |-> variable.module_name,
           indexInModule |-> variable.index_in_module,
           isInputVariable |-> variable.is_input_variable,
           defaultValue |-> IF IsIntFloatBool(variable.default_value)
                            THEN variable.default_value
                            ELSE PyNone,
           adds |-> variable.adds,
           subtracts |-> variable.subtracts]
    IN IF variable.value_type = "Enum"
       THEN [DictSet(record, "possibleValues",
                     PossibleValues(variable.possible_values))
                EXCEPT !["defaultValue"] =
                    [type |-> "str", val |-> variable.default_value.name]]
       ELSE record

build_variables(country) ==
    LET variables == country.tax_benefit_system.variables
    IN [variable_name \in DOMAIN variables |->
            VariableRecord(variable_name, variables[variable_name])]

----------------------------------------------------------------------------
(* build_parameters *)

Gov == <<"g", "o", "v">>

\* "gov" != parameter.name[:3]
NotGov(parameter) == Gov # Slice(parameter.name, 3)

\* {value_at_instant.instant_str: get_safe_json(value_at_instant.value) ...}
ParameterValues(values_list) ==
    [instant_str \in {values_list[i].instant_str : i \in 1..Len(values_list)} |->
        LET last == CHOOSE i \in 1..Len(values_list) :
                        /\ values_list[i].instant_str = instant_str
                        /\ \A j \in (i + 1)..Len(values_list) :
                               values_list[j].instant_str # instant_str
        IN get_safe_json(values_list[last].value)]

\* the loop body with the second branch testing the current node
ParameterStepTestsNode(parameters, parameter, parameter_data) ==
    IF NotGov(parameter) THEN parameter_data
    ELSE IF \/ IsInstance(parameter.kind, "ParameterScale")
            \/ IsInstance(parameter.kind, "ParameterScaleBracket")
    THEN parameter_data
    ELSE IF IsInstance(parameter.kind, "Parameter")
    THEN DictSet(parameter_data, parameter.name,
            [type |-> "parameter",
             parameter |-> parameter.name,
             description |-> parameter.description,
             label |-> DictGet(parameter.metadata, "label"),
             unit |-> DictGet(parameter.metadata, "unit"),
             period |-> DictGet(parameter.metadata, "period"),
             values |-> ParameterValues(parameter.values_list)])
    ELSE IF IsInstance(parameter.kind, "ParameterNode")
    THEN DictSet(parameter_data, parameter.name,
            [type |-> "parameterNode",
             parameter |-> parameter.name,
             description |-> parameter.description,
             label |-> DictGet(parameter.metadata, "label")])
    ELSE parameter_data

\* the loop body without the Scale and Scale Bracket filter
ParameterStepKeepsScales(parameters, parameter, parameter_data) ==
    IF NotGov(parameter) THEN parameter_data
    ELSE IF IsInstance(parameter.kind, "Parameter")
    THEN DictSet(parameter_data, parameter.name,
            [type |-> "parameter",
             parameter |-> parameter.name,
             description |-> parameter.description,
             label |-> DictGet(parameter.metadata, "label"),
             unit |-> DictGet(parameter.metadata, "unit"),
             period |-> DictGet(parameter.metadata, "period"),
             values |-> ParameterValues(parameter.values_list)])
    ELSE IF IsInstance(parameters.kind, "ParameterNode")
    THEN DictSet(parameter_data, parameter.name,
            [type |-> "parameterNode",
             parameter |-> parameter.name,
             description |-> parameter.description,
             label |-> DictGet(parameter.metadata, "label")])
    ELSE parameter_data

\* one iteration of the loop of build_parameters.  parameters is the root of
\* the tree: the second branch tests it, not the current node.
ParameterStep(parameters, parameter, parameter_data) ==
    IF NotGov(parameter) THEN parameter_data
    ELSE IF \/ IsInstance(parameter.kind, "ParameterScale")
            \/ IsInstance(parameter.kind, "ParameterScaleBracket")
    THEN parameter_data
    ELSE IF IsInstance(parameter.kind, "Parameter")
    THEN DictSet(parameter_data, parameter.name,
            [type |-> "parameter",
             parameter |-> parameter.name,
             description |-> parameter.description,
             label |-> DictGet(parameter.metadata, "label"),
             unit |-> DictGet(parameter.metadata, "unit"),
             period |-> DictGet(parameter.metadata, "period"),
             values |-> ParameterValues(parameter.values_list)])
    ELSE IF IsInstance(parameters.kind, "ParameterNode")
    THEN DictSet(parameter_data, parameter.name,
            [type |-> "parameterNode",
             parameter |-> parameter.name,
             description |-> parameter.description,
             label |-> DictGet(parameter.metadata, "label")])
    ELSE parameter_data

\* parameters.get_descendants(): the nodes below the root, in tree order
get_descendants(parameters) == parameters.descendants

RECURSIVE ParameterLoop(_, _, _)
ParameterLoop(parameters, descendants, parameter_data) ==
    IF descendants = <<>> THEN parameter_data
    ELSE ParameterLoop(parameters, Tail(descendants),
            ParameterStep(parameters, Head(descendants), parameter_data))

build_parameters(country) ==
    LET parameters == country.tax_benefit_system.parameters
    IN ParameterLoop(parameters, get_descendants(parameters), EmptyDict)

----------------------------------------------------------------------------
(* build_entities *)

\* {role.key: {plural, label, doc} for role in entity.roles}
EntityRoles(roles) ==
    [key \in {roles[i].key : i \in 1..Len(roles)} |->
        LET last == CHOOSE i \in 1..Len(roles) :
                        /\ roles[i].key = key
                        /\ \A j \in (i + 1)..Len(roles) : roles[j].key # key
        IN [plural |-> roles[last].plural,
            label |-> roles[last].label,
            doc |-> roles[last].doc]]

\* hasattr(entity, "roles")
HasRoles(entity) == "roles" \in DOMAIN entity

\* the loop body without its else branch
EntityDataOmitsRoles(entity) ==
    LET entity_data ==
          [plural |-> entity.plural,
           label |-> entity.label,
           doc |-> entity.doc,
           is_person |-> entity.is_person,
           key |-> entity.key]
    IN IF HasRoles(entity)
       THEN DictSet(entity_data, "roles", EntityRoles(entity.roles))
       ELSE entity_data

\* the record of one entity: the body of the loop of build_entities
EntityData(entity) ==
    LET entity_data ==
          [plural |-> entity.plural,
           label |-> entity.label,
           doc |-> entity.doc,
           is_person |-> entity.is_person,
           key |-> entity.key]
    IN IF HasRoles(entity)
       THEN DictSet(entity_data, "roles", EntityRoles(entity.roles))
       ELSE DictSet(entity_data, "roles", EmptyDict)

RECURSIVE EntityLoop(_, _)
EntityLoop(entities, data) ==
    IF entities = <<>> THEN data
    ELSE EntityLoop(Tail(entities),
            DictSet(data, Head(entities).key, EntityData(Head(entities))))

build_entities(country) ==
    EntityLoop(country.tax_benefit_system.entities, EmptyDict)

----------------------------------------------------------------------------
(* metadata: the handler as one function, and the envelope it assembles *)

\* the lookup comparing with the wrong spelling of the id
CurrentLawIdUpperCase(country_id) == IF country_id = "UK" THEN 1 ELSE 2

\* 1 if country_id == "uk" else 2
current_law_id(country_id) == IF country_id = "uk" THEN 1 ELSE 2

\* the envelope without the variableModules key
EnvelopeWithoutModules(variables, parameters, entities, variableModules, economy_options, country_id) ==
    [status |-> "ok",
     message |-> None,
     result |-> [variables |-> variables,
                 parameters |-> parameters,
                 entities |-> entities,
                 economy_options |-> economy_options,
                 current_law_id |-> current_law_id(country_id)]]

\* dict(status="ok", message=None, result=dict(...))
Envelope(variables, parameters, entities, variableModules, economy_options, country_id) ==
    [status |-> "ok",
     message |-> None,
     result |-> [variables |-> variables,
                 parameters |-> parameters,
                 entities |-> entities,
                 variableModules |-> variableModules,
                 economy_options |-> economy_options,
                 current_law_id |-> current_law_id(country_id)]]

\* metadata(country_id), run alone against the registry countries
metadata(countries, country_id) ==
    LET country == CountriesGet(countries, country_id)
        country_not_found ==
            validate_country(CountriesAfterGet(countries, country_id),
                             country_id)
    IN IF country_not_found # PyNone
       THEN country_not_found
       ELSE Envelope(build_variables(country),
                     build_parameters(country),
                     build_entities(country),
                     country.tax_benefit_system.variable_module_metadata,
                     build_microsimulation_options(country, country_id),
                     country_id)

----------------------------------------------------------------------------
(* The rule systems the registry is loaded with *)

CountryIds == {"uk", "us", "ca"}

Requests == 1..NumRequests

Py(type, val) == [type |-> type, val |-> val]

\* enumerations: the members in definition order
TenureType ==
    << [type |-> "EnumMember", name |-> "OWNED", value |-> "Owned outright"],
       [type |-> "EnumMember", name |-> "RENT", value |-> "Rented"] >>

StateCode ==
    << [type |-> "EnumMember", name |-> "UNKNOWN", value |-> "Unknown"] >>

RawDefaults ==
    {Py("int", "0"), Py("float", "0.5"), Py("bool", "False"),
     Py("str", "single"), Py("list", "[]"), PyNone}

MkVariable(value_type, default_value, possible_values) ==
    [documentation |-> None,
     entity |-> [key |-> "person"],
     value_type |-> value_type,
     definition_period |-> "year",
     label |-> "a variable",
     category |-> None,
     unit |-> IF value_type = "float" THEN "currency-GBP" ELSE None,
     module_name |-> "gov.hmrc",
     index_in_module |-> 0,
     is_input_variable |-> (value_type # "float"),
     default_value |-> default_value,
     adds |-> <<>>,
     subtracts |-> <<>>,
     possible_values |-> possible_values]

VariableChoices ==
    {MkVariable(t, d, <<>>) : <<t, d>> \in {"float", "str"} \X RawDefaults}
    \cup {MkVariable("Enum", TenureType[i], TenureType) : i \in 1..Len(TenureType)}
    \cup {MkVariable("Enum", StateCode[1], StateCode)}

VariableNames == {"age", "income_tax", "tenure_type"}

\* every mapping of at most n of the names in Names to a member of Choices
Mappings(Names, Choices, n) ==
    UNION {[S -> Choices] : S \in {T \in SUBSET Names : Cardinality(T) <= n}}

VariableMaps == Mappings(VariableNames, VariableChoices, MaxVariables)

GovA == <<"g", "o", "v", ".", "a">>
Go == <<"g", "o">>
CalA == <<"c", "a", "l", ".", "a">>
GovX == <<"g", "o", "v", "x">>

ParamNames == {Gov, GovA, Go, CalA, GovX}

\* the four node classes of the parameter tree, and a class outside them
ParamKinds ==
    {"Parameter", "ParameterNode", "ParameterScale", "ParameterScaleBracket",
     "Other"}

MetadataOf(name) ==
    IF name = GovA THEN [label |-> "Rate", unit |-> "/1", period |-> "year"]
    ELSE IF name = Gov THEN [label |-> "Government"]
    ELSE EmptyDict

ValuesOf(name) ==
    IF name = GovA
    THEN << [instant_str |-> "2022-01-01", value |-> Py("float", "0.2")],
            [instant_str |-> "2021-01-01", value |-> Py("float", "inf")] >>
    ELSE IF Len(name) > 3
    THEN << [instant_str |-> "2022-01-01", value |-> Py("bool", "True")] >>
    ELSE <<>>

MkNode(name, kind) ==
    IF kind = "Parameter"
    THEN [name |-> name, kind |-> kind, description |-> None,
          metadata |-> MetadataOf(name), values_list |-> ValuesOf(name)]
    ELSE [name |-> name, kind |-> kind, description |-> "a group",
          metadata |-> MetadataOf(name)]

\* a parameter tree: its root is a ParameterNode, its descendants carry
\* distinct names
MkTree(kinds) ==
    LET names == SetToSeq(DOMAIN kinds)
    IN [kind |-> "ParameterNode",
        descendants |-> [i \in 1..Len(names) |-> MkNode(names[i], kinds[names[i]])]]

ParamTrees == {MkTree(k) : k \in Mappings(ParamNames, ParamKinds, MaxParams)}

RoleKeys == {"adult", "child", "tenant"}

MkRole(key) ==
    [key |-> key, plural |-> key \o "s", label |-> "Role",
     doc |-> IF key = "adult" THEN "An adult" ELSE None]

MkEntity(key, is_person, roles) ==
    [key |-> key, plural |-> key \o "s", label |-> "Entity", doc |-> None,
     is_person |-> is_person, roles |-> roles]

MkEntityWithoutRoles(key, is_person) ==
    [key |-> key, plural |-> key \o "s", label |-> "Entity", doc |-> None,
     is_person |-> is_person]

RoleLists ==
    {[i \in 1..Len(SetToSeq(S)) |-> MkRole(SetToSeq(S)[i])] :
        S \in {T \in SUBSET RoleKeys : Cardinality(T) <= MaxRoles}}

\* what an entity is apart from its key: a person flag, and roles or none
EntityChoices ==
    {[is_person |-> b, has_roles |-> FALSE, roles |-> <<>>] : b \in BOOLEAN}
    \cup {[is_person |-> b, has_roles |-> TRUE, roles |-> r] :
            <<b, r>> \in BOOLEAN \X RoleLists}

EntityKeys == {"person", "household", "benunit"}

MkEntities(choice) ==
    LET keys == SetToSeq(DOMAIN choice)
    IN [i \in 1..Len(keys) |->
            IF choice[keys[i]].has_roles
            THEN MkEntity(keys[i], choice[keys[i]].is_person,
                          choice[keys[i]].roles)
            ELSE MkEntityWithoutRoles(keys[i], choice[keys[i]].is_person)]

EntityLists ==
    {MkEntities(c) : c \in Mappings(EntityKeys, EntityChoices, MaxEntities)}

MkCountry(variables, parameters, entities, variable_module_metadata) ==
    [tax_benefit_system |->
        [variables |-> variables,
         parameters |-> parameters,
         entities |-> entities,
         variable_module_metadata |-> variable_module_metadata]]

BaseVariables ==
    [n \in {"age", "tenure_type"} |->
        IF n = "age" THEN MkVariable("float", Py("int", "0"), <<>>)
        ELSE MkVariable("Enum", TenureType[2], TenureType)]

BaseTree ==
    MkTree([n \in {Gov, GovA, CalA} |->
                IF n = Gov THEN "ParameterNode" ELSE "Parameter"])

BaseEntities ==
    << MkEntityWithoutRoles("person", TRUE),
       MkEntity("household", FALSE, <<MkRole("adult"), MkRole("child")>>) >>

BaseModules == [gov |-> [label |-> "Government"]]

\* three whole rule systems, for the runs that vary the registry
SampleCountries ==
    {MkCountry(BaseVariables, BaseTree, BaseEntities, BaseModules),
     MkCountry(EmptyDict, MkTree(EmptyDict), <<>>, EmptyDict),
     MkCountry([n \in {"income_tax"} |-> MkVariable("str", PyNone, <<>>)],
               MkTree([n \in {Gov, GovX} |->
                         IF n = Gov THEN "ParameterScale" ELSE "Other"]),
               << MkEntity("benunit", FALSE, <<>>) >>,
               BaseModules)}

----------------------------------------------------------------------------
(* The invocations of metadata() *)

NoFrame ==
    [country_id |-> None,
     country |-> PyNone,
     variables |-> EmptyDict,
     parameters |-> EmptyDict,
     entities |-> EmptyDict,
     variableModules |-> EmptyDict,
     economy_options |-> EmptyDict]

NoReturn == [status |-> "pending"]

InFlight(position, p) == position[p] \notin {"idle", "returned"}

\* the history of overlaps, once the positions have become position
Overlaps(position) ==
    [p \in Requests |->
        IF position[p] = "idle" THEN FALSE
        ELSE \/ overlap[p]
             \/ /\ InFlight(position, p)
                /\ \E q \in Requests \ {p} : InFlight(position, q)]

InitRequests ==
    /\ registry0 = COUNTRIES
    /\ pc = [p \in Requests |-> "idle"]
    /\ frame = [p \in Requests |-> NoFrame]
    /\ ret = [p \in Requests |-> NoReturn]
    /\ calls = [p \in Requests |-> {}]
    /\ overlap = [p \in Requests |-> FALSE]

\* any of the country ids loaded, each with one of the sample rule systems
Init ==
    /\ COUNTRIES \in UNION {[S -> SampleCountries] : S \in SUBSET CountryIds}
    /\ InitRequests

\* one country loaded, with any variable collection within the bounds
InitVariables ==
    /\ COUNTRIES \in
        {[c \in {"uk"} |-> MkCountry(v, BaseTree, BaseEntities, BaseModules)] :
            v \in VariableMaps}
    /\ InitRequests

\* one country loaded, with any parameter tree within the bounds
InitParameters ==
    /\ COUNTRIES \in
        {[c \in {"uk"} |-> MkCountry(BaseVariables, t, BaseEntities, BaseModules)] :
            t \in ParamTrees}
    /\ InitRequests

\* one country loaded, with any entity list within the bounds
InitEntities ==
    /\ COUNTRIES \in
        {[c \in {"uk"} |-> MkCountry(BaseVariables, BaseTree, e, BaseModules)] :
            e \in EntityLists}
    /\ InitRequests

\* lines 16-19 returning an envelope of its own instead of the validator's
InvokeWrapsError(p, country_id) ==
    /\ pc[p] = "idle"
    /\ LET country == CountriesGet(COUNTRIES, country_id)
           after == CountriesAfterGet(COUNTRIES, country_id)
           country_not_found == validate_country(after, country_id)
       IN /\ COUNTRIES' = after
          /\ IF country_not_found # PyNone
             THEN /\ pc' = [pc EXCEPT ![p] = "returned"]
                  /\ ret' = [ret EXCEPT ![p] =
                        [status |-> "error", message |-> None]]
                  /\ frame' = [frame EXCEPT ![p].country_id = country_id]
             ELSE /\ pc' = [pc EXCEPT ![p] = "build_variables"]
                  /\ frame' = [frame EXCEPT ![p].country_id = country_id,
                                            ![p].country = country]
                  /\ ret' = ret
    /\ overlap' = Overlaps(pc')
    /\ UNCHANGED <<registry0, calls>>

\* lines 16-19: look the country up, validate the id, return the
\* validator's envelope if there is one
Invoke(p, country_id) ==
    /\ pc[p] = "idle"
    /\ LET country == CountriesGet(COUNTRIES, country_id)
           after == CountriesAfterGet(COUNTRIES, country_id)
           country_not_found == validate_country(after, country_id)
       IN /\ COUNTRIES' = after
          /\ IF country_not_found # PyNone
             THEN /\ pc' = [pc EXCEPT ![p] = "returned"]
                  /\ ret' = [ret EXCEPT ![p] = country_not_found]
                  /\ frame' = [frame EXCEPT ![p].country_id = country_id]
             ELSE /\ pc' = [pc EXCEPT ![p] = "build_variables"]
                  /\ frame' = [frame EXCEPT ![p].country_id = country_id,
                                            ![p].country = country]
                  /\ ret' = ret
    /\ overlap' = Overlaps(pc')
    /\ UNCHANGED <<registry0, calls>>

\* line 24
BuildVariables(p) ==
    /\ pc[p] = "build_variables"
    /\ frame' = [frame EXCEPT ![p].variables = build_variables(frame[p].country)]
    /\ calls' = [calls EXCEPT ![p] = @ \cup {"build_variables"}]
    /\ pc' = [pc EXCEPT ![p] = "build_parameters"]
    /\ overlap' = Overlaps(pc')
    /\ UNCHANGED <<COUNTRIES, registry0, ret>>

\* line 25
BuildParameters(p) ==
    /\ pc[p] = "build_parameters"
    /\ frame' = [frame EXCEPT ![p].parameters = build_parameters(frame[p].country)]
    /\ calls' = [calls EXCEPT ![p] = @ \cup {"build_parameters"}]
    /\ pc' = [pc EXCEPT ![p] = "build_entities"]
    /\ overlap' = Overlaps(pc')
    /\ UNCHANGED <<COUNTRIES, registry0, ret>>

\* line 26
BuildEntities(p) ==
    /\ pc[p] = "build_entities"
    /\ frame' = [frame EXCEPT ![p].entities = build_entities(frame[p].country)]
    /\ calls' = [calls EXCEPT ![p] = @ \cup {"build_entities"}]
    /\ pc' = [pc EXCEPT ![p] = "build_microsimulation_options"]
    /\ overlap' = Overlaps(pc')
    /\ UNCHANGED <<COUNTRIES, registry0, ret>>

\* lines 27-28
BuildMicrosimulationOptions(p) ==
    /\ pc[p] = "build_microsimulation_options"
    /\ frame' = [frame EXCEPT
            ![p].variableModules =
                frame[p].country.tax_benefit_system.variable_module_metadata,
            ![p].economy_options =
                build_microsimulation_options(frame[p].country,
                                              frame[p].country_id)]
    /\ calls' = [calls EXCEPT ![p] = @ \cup {"build_microsimulation_options"}]
    /\ pc' = [pc EXCEPT ![p] = "return"]
    /\ overlap' = Overlaps(pc')
    /\ UNCHANGED <<COUNTRIES, registry0, ret>>

\* lines 20-23 and 29-31
Return(p) ==
    /\ pc[p] = "return"
    /\ ret' = [ret EXCEPT ![p] =
            Envelope(frame[p].variables, frame[p].parameters,
                     frame[p].entities, frame[p].variableModules,
                     frame[p].economy_options, frame[p].country_id)]
    /\ pc' = [pc EXCEPT ![p] = "returned"]
    /\ overlap' = Overlaps(pc')
    /\ UNCHANGED <<COUNTRIES, registry0, frame, calls>>

\* the caller has taken the response: the slot serves the next request
Complete(p) ==
    /\ pc[p] = "returned"
    /\ pc' = [pc EXCEPT ![p] = "idle"]
    /\ frame' = [frame EXCEPT ![p] = NoFrame]
    /\ ret' = [ret EXCEPT ![p] = NoReturn]
    /\ calls' = [calls EXCEPT ![p] = {}]
    /\ overlap' = Overlaps(pc')
    /\ UNCHANGED <<COUNTRIES, registry0>>

Step(p) ==
    \/ \E country_id \in CountryIds : Invoke(p, country_id)
    \/ BuildVariables(p)
    \/ BuildParameters(p)
    \/ BuildEntities(p)
    \/ BuildMicrosimulationOptions(p)
    \/ Return(p)
    \/ Complete(p)

\* requests served concurrently: the invocations interleave step by step
Next == \E p \in Requests : Step(p)

\* requests served one at a time
NextAlone == Step(1)

Spec == Init /\ [][Next]_vars

SpecVariables == InitVariables /\ [][NextAlone]_vars

SpecParameters == InitParameters /\ [][NextAlone]_vars

SpecEntities == InitEntities /\ [][NextAlone]_vars

----------------------------------------------------------------------------
(* Properties *)

\* an invocation has returned, and the validator accepts its country id
ReturnedValid(p) ==
    /\ pc[p] = "returned"
    /\ validate_country(COUNTRIES, frame[p].country_id) = PyNone

\* an invocation has returned, and the validator rejects its country id
ReturnedInvalid(p) ==
    /\ pc[p] = "returned"
    /\ validate_country(COUNTRIES, frame[p].country_id) # PyNone

\* the rule system behind the country id of invocation p
SystemOf(p) == COUNTRIES[frame[p].country_id].tax_benefit_system

ResultKeys ==
    {"variables", "parameters", "entities", "variableModules",
     "economy_options", "current_law_id"}

\* C1: for every country id the validator accepts, metadata returns
\* status "ok", message None and a result whose keys are exactly the six
\* documented ones.
C1_OkEnvelope ==
    \A p \in Requests :
        ReturnedValid(p) =>
            /\ DOMAIN ret[p] = {"status", "message", "result"}
            /\ ret[p].status = "ok"
            /\ ret[p].message = None
            /\ DOMAIN ret[p].result = ResultKeys

C1_Witness ==
    \E p \in Requests :
        /\ ReturnedValid(p)
        /\ ret[p].status = "ok"
        /\ DOMAIN ret[p].result.variables # {}

\* C2: for every country id the validator rejects, metadata returns exactly
\* the validator's envelope, and has called none of the four projectors.
C2_ErrorPassThrough ==
    \A p \in Requests :
        ReturnedInvalid(p) =>
            /\ ret[p] = validate_country(COUNTRIES, frame[p].country_id)
            /\ calls[p] = {}

C2_Witness ==
    \E p \in Requests :
        /\ ReturnedInvalid(p)
        /\ ret[p].status = "error"
        /\ COUNTRIES # EmptyDict

\* C3: every key of the mapping build_parameters returns starts with "gov"
\* and is the name of a descendant that is neither a Scale nor a Scale
\* Bracket; no descendant of that name is a Scale or a Scale Bracket.
C3_ParameterKeys ==
    \A p \in Requests :
        ReturnedValid(p) =>
            LET nodes == Range(get_descendants(SystemOf(p).parameters))
            IN \A key \in DOMAIN ret[p].result.parameters :
                /\ Len(key) >= 3
                /\ key[1] = "g" /\ key[2] = "o" /\ key[3] = "v"
                /\ \E node \in nodes : node.name = key
                /\ \A node \in nodes :
                       node.name = key =>
                           node.kind \notin
                               {"ParameterScale", "ParameterScaleBracket"}

C3_Witness ==
    \E p \in Requests :
        /\ ReturnedValid(p)
        /\ LET nodes == Range(get_descendants(SystemOf(p).parameters))
           IN /\ DOMAIN ret[p].result.parameters # {}
              /\ \E node \in nodes :
                     /\ node.kind \in {"ParameterScale", "ParameterScaleBracket"}
                     /\ Slice(node.name, 3) = Gov
              /\ \E node \in nodes :
                     /\ node.kind = "Parameter"
                     /\ Slice(node.name, 3) # Gov

\* C4: the record of a variable whose value type name is "Enum" has the
\* name of the default member as its defaultValue and one {value, label}
\* pair per member, at least one, as its possibleValues.
C4_EnumVariables ==
    \A p \in Requests :
        ReturnedValid(p) =>
            \A name \in DOMAIN SystemOf(p).variables :
                LET variable == SystemOf(p).variables[name]
                    record == ret[p].result.variables[name]
                IN variable.value_type = "Enum" =>
                    /\ record.defaultValue.type = "str"
                    /\ record.defaultValue.val = variable.default_value.name
                    /\ "possibleValues" \in DOMAIN record
                    /\ Len(record.possibleValues) >= 1
                    /\ Len(record.possibleValues) = Len(variable.possible_values)
                    /\ \A i \in 1..Len(variable.possible_values) :
                           /\ DOMAIN record.possibleValues[i] = {"value", "label"}
                           /\ record.possibleValues[i].value =
                                  variable.possible_values[i].name
                           /\ record.possibleValues[i].label =
                                  variable.possible_values[i].value

C4_Witness ==
    \E p \in Requests :
        /\ ReturnedValid(p)
        /\ \E name \in DOMAIN SystemOf(p).variables :
               /\ SystemOf(p).variables[name].value_type = "Enum"
               /\ Len(ret[p].result.variables[name].possibleValues) = 2
               /\ ret[p].result.variables[name].defaultValue.val = "RENT"

\* C5: the record of a variable whose value type name is not "Enum" has the
\* raw default as its defaultValue when that is an int, a float or a bool,
\* and null when it is of any other type.
C5_NonEnumDefaults ==
    \A p \in Requests :
        ReturnedValid(p) =>
            \A name \in DOMAIN SystemOf(p).variables :
                LET variable == SystemOf(p).variables[name]
                    record == ret[p].result.variables[name]
                IN variable.value_type # "Enum" =>
                    /\ variable.default_value.type \in {"int", "float", "bool"}
                           => record.defaultValue = variable.default_value
                    /\ variable.default_value.type \notin {"int", "float", "bool"}
                           => record.defaultValue = PyNone

C5_Witness ==
    \E p \in Requests :
        /\ ReturnedValid(p)
        /\ \E name \in DOMAIN SystemOf(p).variables :
               /\ SystemOf(p).variables[name].value_type # "Enum"
               /\ SystemOf(p).variables[name].default_value.type = "str"
               /\ ret[p].result.variables[name].defaultValue = PyNone
        /\ \E name \in DOMAIN SystemOf(p).variables :
               /\ SystemOf(p).variables[name].value_type # "Enum"
               /\ SystemOf(p).variables[name].default_value.type = "bool"
               /\ ret[p].result.variables[name].defaultValue.val = "False"

\* C6: the record of every entity has a roles key: the empty mapping when
\* the entity has no role collection, else one {plural, label, doc} entry
\* per role, keyed by the role key.
C6_EntityRoles ==
    \A p \in Requests :
        ReturnedValid(p) =>
            \A entity \in Range(SystemOf(p).entities) :
                /\ entity.key \in DOMAIN ret[p].result.entities
                /\ LET record == ret[p].result.entities[entity.key]
                   IN /\ "roles" \in DOMAIN record
                      /\ "roles" \notin DOMAIN entity
                             => DOMAIN record.roles = {}
                      /\ "roles" \in DOMAIN entity =>
                             /\ DOMAIN record.roles =
                                    {role.key : role \in Range(entity.roles)}
                             /\ \A role \in Range(entity.roles) :
                                    record.roles[role.key] =
                                        [plural |-> role.plural,
                                         label |-> role.label,
                                         doc |-> role.doc]

C6_Witness ==
    \E p \in Requests :
        /\ ReturnedValid(p)
        /\ \E entity \in Range(SystemOf(p).entities) :
               /\ "roles" \notin DOMAIN entity
               /\ ret[p].result.entities[entity.key].roles = EmptyDict
        /\ \E entity \in Range(SystemOf(p).entities) :
               /\ "roles" \in DOMAIN entity
               /\ Cardinality(DOMAIN ret[p].result.entities[entity.key].roles) = 2

\* C7: invocations of metadata interleaved in any way write nothing to the
\* registry, and each returns what it returns when run alone.
C7_NoSharedWrites ==
    /\ COUNTRIES = registry0
    /\ \A p \in Requests :
           pc[p] = "returned" =>
               ret[p] = metadata(registry0, frame[p].country_id)

C7_Witness ==
    \E p, q \in Requests :
        /\ p # q
        /\ ReturnedValid(p) /\ ReturnedValid(q)
        /\ frame[p].country_id = frame[q].country_id
        /\ overlap[p] /\ overlap[q]
        /\ DOMAIN ret[p].result.parameters # {}

\* C8: current_law_id is 1 for "uk" and 2 for every other valid id.
C8_CurrentLawId ==
    \A p \in Requests :
        ReturnedValid(p) =>
            /\ frame[p].country_id = "uk" => ret[p].result.current_law_id = 1
            /\ frame[p].country_id # "uk" => ret[p].result.current_law_id = 2

C8_Witness ==
    \E p, q \in Requests :
        /\ ReturnedValid(p) /\ ReturnedValid(q)
        /\ frame[p].country_id = "uk" /\ ret[p].result.current_law_id = 1
        /\ frame[q].country_id = "ca" /\ ret[q].result.current_law_id = 2

\* C9: the economy options are 2 regions (uk, ni) and the period 2022 for
\* "uk", 13 regions and 1 period for "us", and the empty mapping for every
\* other id.
C9_EconomyOptions ==
    \A p \in Requests :
        ReturnedValid(p) =>
            LET options == ret[p].result.economy_options
                country_id == frame[p].country_id
            IN /\ country_id = "uk" =>
                    /\ DOMAIN options = {"region", "time_period"}
                    /\ Len(options.region) = 2
                    /\ options.region[1].name = "uk"
                    /\ options.region[2].name = "ni"
                    /\ Len(options.time_period) = 1
                    /\ options.time_period[1].name = 2022
               /\ country_id = "us" =>
                    /\ DOMAIN options = {"region", "time_period"}
                    /\ Len(options.region) = 13
                    /\ Len(options.time_period) = 1
               /\ country_id \notin {"uk", "us"} => DOMAIN options = {}

C9_Witness ==
    \E p, q \in Requests :
        /\ ReturnedValid(p) /\ ReturnedValid(q)
        /\ frame[p].country_id = "us"
        /\ Len(ret[p].result.economy_options.region) = 13
        /\ frame[q].country_id = "ca"
        /\ ret[q].result.economy_options = EmptyDict

\* C10: every descendant that passes both filters has one record under its
\* name: of type "parameter" with values when it is a plain Parameter, else
\* of type "parameterNode" without values, whatever its class.
C10_ParameterBranches ==
    \A p \in Requests :
        ReturnedValid(p) =>
            \A node \in Range(get_descendants(SystemOf(p).parameters)) :
                (/\ Slice(node.name, 3) = Gov
                 /\ node.kind \notin {"ParameterScale", "ParameterScaleBracket"})
                =>
                /\ node.name \in DOMAIN ret[p].result.parameters
                /\ LET record == ret[p].result.parameters[node.name]
                   IN /\ record.parameter = node.name
                      /\ IF node.kind = "Parameter"
                         THEN /\ record.type = "parameter"
                              /\ "values" \in DOMAIN record
                         ELSE /\ record.type = "parameterNode"
                              /\ "values" \notin DOMAIN record

C10_Witness ==
    \E p \in Requests :
        /\ ReturnedValid(p)
        /\ \E node \in Range(get_descendants(SystemOf(p).parameters)) :
               /\ node.kind = "Other"
               /\ node.name \in DOMAIN ret[p].result.parameters
               /\ ret[p].result.parameters[node.name].type = "parameterNode"
        /\ \E node \in Range(get_descendants(SystemOf(p).parameters)) :
               /\ node.kind = "Parameter"
               /\ node.name \in DOMAIN ret[p].result.parameters
               /\ DOMAIN ret[p].result.parameters[node.name].values # {}

====
